---- MODULE Spec2Model ----
(***************************************************************************)
(* A model of performance_regression_tool_2.ipynb: the CSV history store   *)
(* (load_baseline_data / save_baseline_data / record_performance), the     *)
(* regression detector (detect_regression), the sample aggregator          *)
(* (measure_performance), the chart's data preparation                     *)
(* (plot_performance_history) and the driver (main_flow).                  *)
(*                                                                         *)
(* Numbers: the code computes with IEEE doubles.  The model computes with  *)
(* exact rationals <<n, d>> (d > 0, lowest terms) and keeps the three      *)
(* non-finite outcomes of a float division (inf, -inf, nan) as tagged      *)
(* values, so rounding error is abstracted and division by zero is not.    *)
(*                                                                         *)
(* Timestamps: the code's key is the text strftime('%Y-%m-%d %H:%M').      *)
(* Such texts order like the minutes they name, so a well-formed key is    *)
(* modelled by the number of its minute; BadTs stands for a text that is   *)
(* no date at all (it sorts after every well-formed key, as a text that    *)
(* starts with a letter sorts after one that starts with a digit), and    *)
(* MissingTs for an empty timestamp cell, which read_csv reads as NaN.     *)
(***************************************************************************)
EXTENDS Integers, Sequences, FiniteSets, TLC

\* ------------------------------------------------------------ bounds
\* Number of distinct well-formed minute keys the clock can show.
MaxTs == 2
\* Number of record_performance calls in one behaviour of Spec.
MaxRecords == 3
\* Number of record_performance calls in one behaviour of SpecCorrupt.
MaxCorruptRecords == 2
\* Number of record_performance calls in one behaviour of SpecCrash.
MaxCrashCalls == 2
\* Number of record_performance calls in one behaviour of SpecRace.
MaxRaceCalls == 2

\* ------------------------------------------------------------ configuration
NUM_RUNS == 3
\* REGRESSION_THRESHOLD_RATIO = 0.05, as the rational 1/20.
REGRESSION_THRESHOLD_RATIO == <<1, 20>>
\* " ".join(BASELINE_FLAGS) and " ".join(REGRESSION_FLAGS)
BASELINE_FLAGS == "-O2"
REGRESSION_FLAGS == "-O0"

Timestamps == 1..MaxTs
BadTs == MaxTs + 1
MissingTs == 0
Flags == {BASELINE_FLAGS, REGRESSION_FLAGS}

\* ------------------------------------------------------------ rationals
Abs(n) == IF n < 0 THEN -n ELSE n

RECURSIVE GCD(_, _)
GCD(a, b) == IF b = 0 THEN a ELSE GCD(b, a % b)

\* n/d in lowest terms, d > 0.
Norm(n, d) == LET g == GCD(Abs(n), d) IN <<n \div g, d \div g>>

Rat(n) == <<n, 1>>
RAdd(a, b) == Norm(a[1] * b[2] + b[1] * a[2], a[2] * b[2])
RSub(a, b) == Norm(a[1] * b[2] - b[1] * a[2], a[2] * b[2])
RMul(a, b) == Norm(a[1] * b[1], a[2] * b[2])
RDivNat(a, k) == Norm(a[1], a[2] * k)
RLt(a, b) == a[1] * b[2] < b[1] * a[2]
RSign(a) == IF a[1] > 0 THEN 1 ELSE IF a[1] < 0 THEN -1 ELSE 0

RECURSIVE Sum(_)
Sum(xs) == IF xs = <<>> THEN Rat(0) ELSE RAdd(Head(xs), Sum(Tail(xs)))

\* sum(xs) / len(xs) of a non-empty list, and pandas' Series.mean() of a
\* non-empty numeric column.
Mean(xs) == RDivNat(Sum(xs), Len(xs))

\* A float quotient x / y as numpy computes it: a number, or for y = 0 one
\* of inf, -inf, nan (a RuntimeWarning, no exception).
FloatDiv(x, y) ==
    IF y[1] # 0
      THEN [k |-> "num",
            v |-> IF y[1] > 0 THEN Norm(x[1] * y[2], x[2] * y[1])
                              ELSE Norm(-(x[1] * y[2]), x[2] * (-y[1]))]
      ELSE IF x[1] > 0 THEN [k |-> "inf", v |-> Rat(0)]
      ELSE IF x[1] < 0 THEN [k |-> "-inf", v |-> Rat(0)]
      ELSE [k |-> "nan", v |-> Rat(0)]

\* f > t for a float f and a finite t: inf is greater, -inf and nan are not.
FloatGt(f, t) ==
    \/ f.k = "inf"
    \/ f.k = "num" /\ RLt(t, f.v)

\* ------------------------------------------------------------ CSV cells
\* pandas' missing value in an object column.
NaN == "<NaN>"

\* read_csv of a flags cell: the empty text is a missing value.
ReadFlags(text) == IF text = "" THEN NaN ELSE text
\* to_csv of a flags value: a missing value is written as the empty text.
WriteFlags(v) == IF v = NaN THEN "" ELSE v

ReadRow(line) == [line EXCEPT !.flags = ReadFlags(line.flags)]
WriteRow(row) == [row EXCEPT !.flags = WriteFlags(row.flags)]

ReadRows(lines) == [i \in 1..Len(lines) |-> ReadRow(lines[i])]
WriteRows(df) == [i \in 1..Len(df) |-> WriteRow(df[i])]

\* ------------------------------------------------------------ the file
\* BASELINE_CSV on disk: absent, or a text of which `header` tells whether
\* the column line is there and `rows` are the data lines after it.  A
\* file of zero bytes is exists /\ ~header /\ rows = <<>>.
NoFile == [exists |-> FALSE, header |-> FALSE, rows |-> <<>>]
ZeroBytes == [exists |-> TRUE, header |-> FALSE, rows |-> <<>>]
HeaderOnly == [exists |-> TRUE, header |-> TRUE, rows |-> <<>>]

\* df.to_csv(baseline_csv, index=False), the complete text it writes.
ToCsv(df) == [exists |-> TRUE, header |-> TRUE, rows |-> WriteRows(df)]

\* Variant for C5: no os.path.exists test, so a missing file makes read_csv
\* raise.
load_baseline_data_NoExistsTest(f) ==
    IF ~f.exists \/ ~f.header THEN [ok |-> FALSE, df |-> <<>>]
    ELSE [ok |-> TRUE, df |-> ReadRows(f.rows)]

\* Variant for C9: the rows whose timestamp is no date are dropped on load.
load_baseline_data_DropsMalformed(f) ==
    IF ~f.exists THEN [ok |-> TRUE, df |-> <<>>]
    ELSE IF ~f.header THEN [ok |-> FALSE, df |-> <<>>]
    ELSE [ok |-> TRUE,
          df |-> SelectSeq(ReadRows(f.rows),
                           LAMBDA row : row.timestamp \in Timestamps)]

\* load_baseline_data: no file gives the empty frame; a file is read by
\* pd.read_csv, which raises EmptyDataError on a file with no column line
\* and otherwise returns every data line, whatever its timestamp cell holds.
load_baseline_data(f) ==
    IF ~f.exists THEN [ok |-> TRUE, df |-> <<>>]
    ELSE IF ~f.header THEN [ok |-> FALSE, df |-> <<>>]
    ELSE [ok |-> TRUE, df |-> ReadRows(f.rows)]

\* ------------------------------------------------------------ grouping
Column(df, c) == [i \in 1..Len(df) |-> df[i][c]]
\* The group keys of groupby('timestamp'): rows whose key is missing are
\* left out of every group (dropna).
Keys(df) == {df[i].timestamp : i \in 1..Len(df)} \ {MissingTs}

RECURSIVE SortedSeq(_)
\* The keys in ascending order (groupby sorts its keys).
SortedSeq(S) ==
    IF S = {} THEN <<>>
    ELSE LET m == CHOOSE x \in S : \A y \in S : x <= y
         IN <<m>> \o SortedSeq(S \ {m})

GroupOf(df, k) == SelectSeq(df, LAMBDA r : r.timestamp = k)

RECURSIVE First(_)
\* GroupBy.first(): the first value of the group that is not missing.
First(xs) ==
    IF xs = <<>> THEN NaN
    ELSE IF Head(xs) # NaN THEN Head(xs) ELSE First(Tail(xs))

\* One output row of groupby('timestamp') mean / first, merged on timestamp.
GroupedRow(df, k) ==
    LET g == GroupOf(df, k)
    IN [timestamp |-> k,
        compile_time |-> Mean(Column(g, "compile_time")),
        run_time |-> Mean(Column(g, "run_time")),
        flags |-> First(Column(g, "flags"))]

\* Variant for C1: the concatenated frame is saved as it is, not grouped.
GroupByTimestamp_NotGrouped(df) == df

\* numeric_grouped merged with non_numeric_grouped: one row per key, keys
\* ascending.
GroupByTimestamp(df) ==
    LET ks == SortedSeq(Keys(df))
    IN [i \in 1..Len(ks) |-> GroupedRow(df, ks[i])]

NewEntry(ts, c, r, fl) ==
    [timestamp |-> ts, compile_time |-> c, run_time |-> r, flags |-> fl]

\* Variant for C10: the loaded frame is not concatenated, only the new
\* entry is grouped and saved.
GroupedDf_NewEntryOnly(loaded, entry) == GroupByTimestamp(<<entry>>)

\* The frame record_performance saves and returns, from the loaded frame
\* and the new entry: concat, then group.
GroupedDf(loaded, entry) == GroupByTimestamp(Append(loaded, entry))

\* ------------------------------------------------------------ detection
NoBaselineMsg == "No baseline data exists yet."
WarningMsg == "WARNING: Regression detected!"
NoRegressionMsg == "No significant regression."

Verdict(out, reg, msg, nc, nr, ac, ar) ==
    [op |-> "detect", out |-> out, is_regression |-> reg, msg |-> msg,
     new_compile |-> nc, new_run |-> nr, avg_compile |-> ac, avg_run |-> ar]

\* Variant for C4: both metrics must exceed the threshold (and for or).
detect_regression_And(nc, nr, f) ==
    LET ld == load_baseline_data(f)
    IN IF ~ld.ok
         THEN Verdict("EmptyDataError", FALSE, "", nc, nr, Rat(0), Rat(0))
       ELSE IF Len(ld.df) = 0
         THEN Verdict("returned", FALSE, NoBaselineMsg, nc, nr, Rat(0), Rat(0))
       ELSE
         LET ac == Mean(Column(ld.df, "compile_time"))
             ar == Mean(Column(ld.df, "run_time"))
             compile_regression ==
                 FloatGt(FloatDiv(RSub(nc, ac), ac), REGRESSION_THRESHOLD_RATIO)
             run_regression ==
                 FloatGt(FloatDiv(RSub(nr, ar), ar), REGRESSION_THRESHOLD_RATIO)
         IN IF compile_regression /\ run_regression
              THEN Verdict("returned", TRUE, WarningMsg, nc, nr, ac, ar)
              ELSE Verdict("returned", FALSE, NoRegressionMsg, nc, nr, ac, ar)

\* detect_regression(new_compile_time, new_run_time, baseline_csv)
detect_regression(nc, nr, f) ==
    LET ld == load_baseline_data(f)
    IN IF ~ld.ok
         THEN Verdict("EmptyDataError", FALSE, "", nc, nr, Rat(0), Rat(0))
       ELSE IF Len(ld.df) = 0
         THEN Verdict("returned", FALSE, NoBaselineMsg, nc, nr, Rat(0), Rat(0))
       ELSE
         LET ac == Mean(Column(ld.df, "compile_time"))
             ar == Mean(Column(ld.df, "run_time"))
             compile_regression ==
                 FloatGt(FloatDiv(RSub(nc, ac), ac), REGRESSION_THRESHOLD_RATIO)
             run_regression ==
                 FloatGt(FloatDiv(RSub(nr, ar), ar), REGRESSION_THRESHOLD_RATIO)
         IN IF compile_regression \/ run_regression
              THEN Verdict("returned", TRUE, WarningMsg, nc, nr, ac, ar)
              ELSE Verdict("returned", FALSE, NoRegressionMsg, nc, nr, ac, ar)

\* ------------------------------------------------------------ recording
\* save_baseline_data(df, baseline_csv) run to completion.
save_baseline_data(df) == ToCsv(df)

\* record_performance(compile_time, run_time, flags) run to completion at
\* the minute ts, on the file f: its outcome, the frame it returns and the
\* file it leaves.
record_performance(f, ts, c, r, fl) ==
    LET ld == load_baseline_data(f)
    IN IF ~ld.ok
         THEN [op |-> "record", out |-> "EmptyDataError", df |-> <<>>, file |-> f]
         ELSE LET grouped_df == GroupedDf(ld.df, NewEntry(ts, c, r, fl))
              IN [op |-> "record", out |-> "returned", df |-> grouped_df,
                  file |-> save_baseline_data(grouped_df)]

\* ------------------------------------------------------------ charting
\* pd.to_datetime(..., errors='coerce'): a well-formed key parses, any
\* other text becomes NaT.
NaT == -1
ToDatetime(ts) == IF ts \in Timestamps THEN ts ELSE NaT

\* plot_performance_history up to the frame it charts: the loaded rows whose
\* timestamp parsed, and the run-time mean drawn as the reference line.
plot_performance_history(f) ==
    LET ld == load_baseline_data(f)
    IN IF ~ld.ok THEN [op |-> "plot", out |-> "EmptyDataError", df |-> <<>>]
       ELSE IF ld.df = <<>> THEN [op |-> "plot", out |-> "No data to plot.", df |-> <<>>]
       ELSE [op |-> "plot", out |-> "returned",
             df |-> SelectSeq(ld.df, LAMBDA row : ToDatetime(row.timestamp) # NaT)]

\* ------------------------------------------------------------ state
Procs == {1, 2}

VARIABLES
    file,           \* BASELINE_CSV on disk
    ret,            \* what the last completed call returned or raised
    log,            \* history variable: the entries record_performance was called with, in call order
    pc,             \* per writer: where its record_performance call stands
    out,            \* per writer: grouped_df, the frame it is about to save
    committed,      \* history variable: the file as the last completed save (or the start) left it
    overlap,        \* history variable: a writer loaded while another was between load and save
    mpc,            \* main_flow's position
    compile_times,  \* measure_performance's list
    run_times,      \* measure_performance's list
    baseline,       \* main_flow's (baseline_compile_time, baseline_run_time)
    regression,     \* main_flow's (regression_compile_time, regression_run_time)
    verdict,        \* main_flow's (regression_detected, message)
    raised,         \* the exception that left main_flow, if one did
    store0          \* history variable: the file when the behaviour started

vars == <<file, ret, log, pc, out, committed, overlap, mpc, compile_times,
          run_times, baseline, regression, verdict, raised, store0>>

writerVars == <<pc, out, committed, overlap>>
flowVars == <<mpc, compile_times, run_times, baseline, regression, verdict, raised>>

None == [op |-> "none"]

InitWith(f, m) ==
    /\ file = f
    /\ ret = None
    /\ log = <<>>
    /\ pc = [p \in Procs |-> "idle"]
    /\ out = [p \in Procs |-> <<>>]
    /\ committed = f
    /\ overlap = FALSE
    /\ mpc = m
    /\ compile_times = <<>>
    /\ run_times = <<>>
    /\ baseline = <<>>
    /\ regression = <<>>
    /\ verdict = None
    /\ raised = "none"
    /\ store0 = f

\* ------------------------------------------------------------ the store, one caller
\* Measurements a caller records: (compile_time, run_time).
Measurements == {<<Rat(0), Rat(10)>>, <<Rat(10), Rat(10)>>}
\* New values a caller asks detect_regression about.
NewValues == {<<Norm(52, 5), Norm(52, 5)>>, <<Norm(53, 5), Norm(52, 5)>>,
              <<Norm(52, 5), Norm(53, 5)>>, <<Rat(0), Rat(10)>>}

\* A whole record_performance call, at the minute the clock shows; at most
\* n calls in a behaviour.
RecordUpTo(n) ==
    /\ Len(log) < n
    /\ \E ts \in Timestamps, m \in Measurements, fl \in Flags :
         LET res == record_performance(file, ts, m[1], m[2], fl)
         IN /\ file' = res.file
            /\ ret' = [op |-> "record", out |-> res.out, df |-> res.df]
            /\ log' = Append(log, NewEntry(ts, m[1], m[2], fl))
            /\ committed' = res.file
    /\ UNCHANGED <<pc, out, overlap, flowVars, store0>>

\* A whole detect_regression call.
Detect ==
    /\ \E n \in NewValues : ret' = detect_regression(n[1], n[2], file)
    /\ UNCHANGED <<file, log, writerVars, flowVars, store0>>

Record == RecordUpTo(MaxRecords)

Init == \E f \in {NoFile, HeaderOnly} : InitWith(f, "off")
Next == Record \/ Detect
Spec == Init /\ [][Next]_vars

\* ------------------------------------------------------------ claims on Spec
\* The entries recorded under key k, in call order.
RecordedUnder(k) == SelectSeq(log, LAMBDA e : e.timestamp = k)
\* The means detect_regression compares against, from the file as it is.
AvgCompile == Mean(Column(file.rows, "compile_time"))
AvgRun == Mean(Column(file.rows, "run_time"))
\* (new - avg) / avg > threshold for a positive avg, without the division.
Exceeds(new, avg) == RLt(RMul(REGRESSION_THRESHOLD_RATIO, avg), RSub(new, avg))
EmptyHistory == ~file.exists \/ (file.header /\ file.rows = <<>>)

\* C1: after any sequence of record_performance calls from an empty or
\* absent store, the persisted history has at most one row per timestamp.
C1_OneRowPerTimestamp ==
    \A i, j \in 1..Len(file.rows) :
        file.rows[i].timestamp = file.rows[j].timestamp => i = j

\* C1's case: two measurements were recorded under one key and the file
\* holds that key.
C1_Witness ==
    /\ Len(log) >= 2
    /\ log[1].timestamp = log[2].timestamp
    /\ \E i \in 1..Len(file.rows) : file.rows[i].timestamp = log[1].timestamp

\* C2: every stored row's compile_time and run_time are the arithmetic mean
\* of all measurements ever recorded under its key, and its flags are those
\* of the first measurement recorded under the key.
C2_MeanOfAllRecorded ==
    \A i \in 1..Len(file.rows) :
        LET es == RecordedUnder(file.rows[i].timestamp)
        IN /\ es # <<>>
           /\ file.rows[i].compile_time = Mean(Column(es, "compile_time"))
           /\ file.rows[i].run_time = Mean(Column(es, "run_time"))
           /\ file.rows[i].flags = es[1].flags

\* C3: detect_regression on a non-empty history whose mean compile_time or
\* mean run_time is zero or negative ends in InvalidBaseline, never in a
\* verdict.
C3_InvalidBaseline ==
    (/\ ret.op = "detect"
     /\ file.rows # <<>>
     /\ (RSign(AvgCompile) <= 0 \/ RSign(AvgRun) <= 0))
    => ret.out = "InvalidBaseline"

\* C4: on a non-empty history with positive means, detect_regression returns
\* is_regression = TRUE exactly when the compile overrun or the run overrun,
\* relative to the mean over all rows, exceeds the threshold ratio.
C4_RegressionIffEitherExceeds ==
    (/\ ret.op = "detect"
     /\ file.rows # <<>>
     /\ RSign(AvgCompile) > 0
     /\ RSign(AvgRun) > 0)
    => /\ ret.out = "returned"
       /\ ret.is_regression <=>
            (Exceeds(ret.new_compile, AvgCompile) \/ Exceeds(ret.new_run, AvgRun))

\* C4's case: means 10 and 10, new values 10.6 and 10.4, verdict true on the
\* compile overrun alone.
C4_Witness ==
    /\ ret.op = "detect"
    /\ file.rows # <<>>
    /\ AvgCompile = Rat(10)
    /\ AvgRun = Rat(10)
    /\ ret.new_compile = Norm(53, 5)
    /\ ret.new_run = Norm(52, 5)
    /\ ret.is_regression

\* C5: detect_regression on an empty history (no file, or a file with the
\* column line and no rows) returns is_regression = FALSE with the
\* no-baseline message, and raises nothing.
C5_EmptyHistoryNoRegression ==
    (ret.op = "detect" /\ EmptyHistory)
    => /\ ret.out = "returned"
       /\ ~ret.is_regression
       /\ ret.msg = NoBaselineMsg

\* C5's case: detect_regression has answered on an absent file.
C5_Witness ==
    /\ ret.op = "detect"
    /\ ~file.exists
    /\ ret.msg = NoBaselineMsg

\* ------------------------------------------------------------ a record with a malformed row
\* Durable records in which one data line has a timestamp cell that is no
\* date, beside two well-formed lines.
ValidLine1 == NewEntry(1, Rat(10), Rat(10), BASELINE_FLAGS)
ValidLine2 == NewEntry(2, Rat(0), Rat(10), REGRESSION_FLAGS)
MalformedLine == NewEntry(BadTs, Rat(40), Rat(20), REGRESSION_FLAGS)
MissingTsLine == NewEntry(MissingTs, Rat(40), Rat(20), REGRESSION_FLAGS)
CorruptStores ==
    {ToCsv(<<ValidLine1, ValidLine2, MalformedLine>>),
     ToCsv(<<ValidLine1, MalformedLine, ValidLine2>>),
     ToCsv(<<MalformedLine, ValidLine1, ValidLine2>>),
     ToCsv(<<ValidLine1, MissingTsLine, ValidLine2>>)}

\* A whole load_baseline_data call.
Load ==
    /\ ret' = LET ld == load_baseline_data(file)
              IN [op |-> "load",
                  out |-> IF ld.ok THEN "returned" ELSE "EmptyDataError",
                  df |-> ld.df]
    /\ UNCHANGED <<file, log, writerVars, flowVars, store0>>

\* A whole plot_performance_history call.
Plot ==
    /\ ret' = plot_performance_history(file)
    /\ UNCHANGED <<file, log, writerVars, flowVars, store0>>

RecordCorrupt == RecordUpTo(MaxCorruptRecords)

InitCorrupt == \E f \in CorruptStores : InitWith(f, "off")
NextCorrupt == Load \/ Plot \/ RecordCorrupt \/ Detect
SpecCorrupt == InitCorrupt /\ [][NextCorrupt]_vars

\* The rows of the file, as read, and those of them whose timestamp is a date.
RowsOnDisk == ReadRows(file.rows)
ValidRowsOnDisk == SelectSeq(RowsOnDisk, LAMBDA row : row.timestamp \in Timestamps)
HasMalformed(df) == \E i \in 1..Len(df) : df[i].timestamp \notin Timestamps

Begin(p, n) ==
    /\ pc[p] = "idle"
    /\ Len(log) < n
    /\ \E ts \in Timestamps, m \in Measurements, fl \in Flags :
         LET ld == load_baseline_data(file)
         IN /\ log' = Append(log, NewEntry(ts, m[1], m[2], fl))
            /\ IF ld.ok
                 THEN /\ out' = [out EXCEPT ![p] = GroupedDf(ld.df, NewEntry(ts, m[1], m[2], fl))]
                      /\ pc' = [pc EXCEPT ![p] = "save"]
                      /\ ret' = ret
                 ELSE /\ ret' = [op |-> "record", out |-> "EmptyDataError", df |-> <<>>]
                      /\ UNCHANGED <<pc, out>>
    /\ overlap' = (overlap \/ \E q \in Procs \ {p} : pc[q] # "idle")
    /\ UNCHANGED <<file, committed, flowVars, store0>>

\* to_csv opens the file for writing: it is created or cut to zero bytes.
SaveOpen(p) ==
    /\ pc[p] = "save"
    /\ file' = ZeroBytes
    /\ pc' = [pc EXCEPT ![p] = "write"]
    /\ UNCHANGED <<ret, log, out, committed, overlap, flowVars, store0>>

\* to_csv writes the next line: the column line, then the rows in order.
SaveWrite(p) ==
    /\ pc[p] = "write"
    /\ file # ToCsv(out[p])
    /\ file' = IF ~file.header
                 THEN [file EXCEPT !.header = TRUE]
                 ELSE [file EXCEPT !.rows =
                         Append(file.rows, WriteRow(out[p][Len(file.rows) + 1]))]
    /\ UNCHANGED <<ret, log, pc, out, committed, overlap, flowVars, store0>>

\* to_csv closes the file and record_performance returns grouped_df.
SaveClose(p) ==
    /\ pc[p] = "write"
    /\ file = ToCsv(out[p])
    /\ pc' = [pc EXCEPT ![p] = "idle"]
    /\ committed' = file
    /\ ret' = [op |-> "record", out |-> "returned", df |-> out[p]]
    /\ UNCHANGED <<file, log, out, overlap, flowVars, store0>>

\* The process dies while save_baseline_data is writing.
Crash(p) ==
    /\ pc[p] = "write"
    /\ pc' = [pc EXCEPT ![p] = "crashed"]
    /\ UNCHANGED <<file, ret, log, out, committed, overlap, flowVars, store0>>

\* The tool is started again after a crash.
Restart(p) ==
    /\ pc[p] = "crashed"
    /\ pc' = [pc EXCEPT ![p] = "idle"]
    /\ out' = [out EXCEPT ![p] = <<>>]
    /\ UNCHANGED <<file, ret, log, committed, overlap, flowVars, store0>>

\* Stores that hold one earlier measurement.
StoresAfterOneRecord ==
    {record_performance(NoFile, ts, m[1], m[2], fl).file :
        ts \in Timestamps, m \in Measurements, fl \in Flags}

BeginCrash == Begin(1, MaxCrashCalls)
InitCrash == \E f \in StoresAfterOneRecord : InitWith(f, "off")
NextCrash ==
    BeginCrash \/ SaveOpen(1) \/ SaveWrite(1) \/ SaveClose(1) \/ Crash(1) \/ Restart(1)
SpecCrash == InitCrash /\ [][NextCrash]_vars

\* C6: if a crash interrupts save during its write, the durable record is
\* afterwards the complete previously committed history or the complete new
\* one.
C6_CrashLeavesOldOrNew ==
    \A p \in Procs :
        pc[p] = "crashed" => (file = committed \/ file = ToCsv(out[p]))

\* ------------------------------------------------------------ two writers
\* save_baseline_data as one step (the writers' interleaving of interest is
\* that of their loads and saves).
SaveAll(p) ==
    /\ pc[p] = "save"
    /\ file' = save_baseline_data(out[p])
    /\ pc' = [pc EXCEPT ![p] = "idle"]
    /\ committed' = file'
    /\ ret' = [op |-> "record", out |-> "returned", df |-> out[p]]
    /\ UNCHANGED <<log, out, overlap, flowVars, store0>>

BeginRace(p) == Begin(p, MaxRaceCalls)
InitRace == \E f \in {NoFile, HeaderOnly} : InitWith(f, "off")
NextRace == \E p \in Procs : BeginRace(p) \/ SaveAll(p)
SpecRace == InitRace /\ [][NextRace]_vars

RECURSIVE RunningMean(_)
\* What repeated merging leaves of the values recorded under one key: the
\* first value, then each time the mean of what is stored and the new value.
RunningMean(xs) ==
    IF Len(xs) = 1 THEN xs[1]
    ELSE RDivNat(RAdd(RunningMean(SubSeq(xs, 1, Len(xs) - 1)), xs[Len(xs)]), 2)

Quiescent == \A p \in Procs : pc[p] = "idle"

\* An entry contributes to the file: its key has exactly one row, and that
\* row's values are the merge of all values recorded under the key.
Contributes(e) ==
    LET es == RecordedUnder(e.timestamp)
        rs == SelectSeq(file.rows, LAMBDA row : row.timestamp = e.timestamp)
    IN /\ Len(rs) = 1
       /\ rs[1].compile_time = RunningMean(Column(es, "compile_time"))
       /\ rs[1].run_time = RunningMean(Column(es, "run_time"))

\* C10: when the record_performance calls are serialized (no writer loads
\* while another is between its load and its save), every recorded
\* measurement contributes to the persisted history; without a lock there
\* is an interleaving after which one is lost (C10_Witness).
C10_SerializedKeepsEveryMeasurement ==
    (Quiescent /\ ~overlap) => \A i \in 1..Len(log) : Contributes(log[i])

\* C10's case: two writers have both finished and the key of one recorded
\* measurement is not in the file.
C10_Witness ==
    /\ Quiescent
    /\ overlap
    /\ Len(log) = 2
    /\ \E i \in 1..Len(log) :
         \A j \in 1..Len(file.rows) : file.rows[j].timestamp # log[i].timestamp

\* ------------------------------------------------------------ main_flow
\* Times one compile_program call and one run_program call can take.
CompileSamples == {Rat(1), Norm(6, 5)}
RunSamples == {Rat(2), Norm(5, 2)}

\* Stores main_flow can start on: none, an empty one, one left by an
\* earlier record.
PipelineStores ==
    {NoFile, HeaderOnly, record_performance(NoFile, 1, Rat(1), Rat(2), BASELINE_FLAGS).file}

Measuring == mpc \in {"measure_baseline", "measure_regression"}

\* One pass of measure_performance's loop: compile_program and run_program
\* both return, and their times are appended.
SampleOk ==
    /\ Measuring
    /\ Len(compile_times) < NUM_RUNS
    /\ \E c \in CompileSamples, r \in RunSamples :
         /\ compile_times' = Append(compile_times, c)
         /\ run_times' = Append(run_times, r)
    /\ UNCHANGED <<file, ret, log, writerVars, mpc, baseline, regression,
                   verdict, raised, store0>>

\* Variant for C7: the sample's exception is caught inside the loop, which
\* goes on to the next pass.
BuildFails_Swallowed ==
    /\ Measuring
    /\ Len(compile_times) < NUM_RUNS
    /\ raised' = "CalledProcessError in compile_program"
    /\ UNCHANGED <<file, ret, log, writerVars, mpc, compile_times, run_times,
                   baseline, regression, verdict, store0>>

\* compile_program raises (subprocess.run(check=True)): nothing catches it,
\* so it leaves measure_performance and main_flow.
BuildFails ==
    /\ Measuring
    /\ Len(compile_times) < NUM_RUNS
    /\ raised' = "CalledProcessError in compile_program"
    /\ mpc' = "aborted"
    /\ UNCHANGED <<file, ret, log, writerVars, compile_times, run_times,
                   baseline, regression, verdict, store0>>

\* run_program raises after compile_program returned: the same way out.
ExecuteFails ==
    /\ Measuring
    /\ Len(compile_times) < NUM_RUNS
    /\ raised' = "CalledProcessError in run_program"
    /\ mpc' = "aborted"
    /\ UNCHANGED <<file, ret, log, writerVars, compile_times, run_times,
                   baseline, regression, verdict, store0>>

\* measure_performance returns the two means of its NUM_RUNS samples.
MeasureReturn ==
    /\ Measuring
    /\ Len(compile_times) = NUM_RUNS
    /\ IF mpc = "measure_baseline"
         THEN /\ baseline' = <<Mean(compile_times), Mean(run_times)>>
              /\ mpc' = "record_baseline"
              /\ UNCHANGED regression
         ELSE /\ regression' = <<Mean(compile_times), Mean(run_times)>>
              /\ mpc' = "record_regression"
              /\ UNCHANGED baseline
    /\ compile_times' = <<>>
    /\ run_times' = <<>>
    /\ UNCHANGED <<file, ret, log, writerVars, verdict, raised, store0>>

\* main_flow's call record_performance(m..., fl), at the minute the clock
\* shows; an exception leaves main_flow.
FlowRecord(m, fl, next) ==
    \E ts \in Timestamps :
        LET res == record_performance(file, ts, m[1], m[2], fl)
        IN /\ file' = res.file
           /\ committed' = res.file
           /\ ret' = [op |-> "record", out |-> res.out, df |-> res.df]
           /\ log' = Append(log, NewEntry(ts, m[1], m[2], fl))
           /\ IF res.out = "returned"
                THEN mpc' = next /\ raised' = raised
                ELSE mpc' = "aborted" /\ raised' = res.out

RecordBaseline ==
    /\ mpc = "record_baseline"
    /\ FlowRecord(baseline, BASELINE_FLAGS, "measure_regression")
    /\ UNCHANGED <<pc, out, overlap, compile_times, run_times, baseline,
                   regression, verdict, store0>>

RecordRegression ==
    /\ mpc = "record_regression"
    /\ FlowRecord(regression, REGRESSION_FLAGS, "detect")
    /\ UNCHANGED <<pc, out, overlap, compile_times, run_times, baseline,
                   regression, verdict, store0>>

\* Variant for C8: the baseline's values are passed to detect_regression.
DetectStep_BaselineValues ==
    /\ mpc = "detect"
    /\ verdict' = detect_regression(baseline[1], baseline[2], file)
    /\ ret' = verdict'
    /\ mpc' = "plot"
    /\ UNCHANGED <<file, log, writerVars, compile_times, run_times, baseline,
                   regression, raised, store0>>

\* regression_detected, message = detect_regression(regression_compile_time,
\* regression_run_time, BASELINE_CSV); print(message)
DetectStep ==
    /\ mpc = "detect"
    /\ verdict' = detect_regression(regression[1], regression[2], file)
    /\ ret' = verdict'
    /\ mpc' = IF verdict'.out = "returned" THEN "plot" ELSE "aborted"
    /\ raised' = IF verdict'.out = "returned" THEN raised ELSE verdict'.out
    /\ UNCHANGED <<file, log, writerVars, compile_times, run_times, baseline,
                   regression, store0>>

\* plot_performance_history()
PlotStep ==
    /\ mpc = "plot"
    /\ ret' = plot_performance_history(file)
    /\ mpc' = "done"
    /\ UNCHANGED <<file, log, writerVars, compile_times, run_times, baseline,
                   regression, verdict, raised, store0>>

InitPipeline == \E f \in PipelineStores : InitWith(f, "measure_baseline")
NextPipeline ==
    \/ SampleOk \/ BuildFails \/ ExecuteFails \/ MeasureReturn
    \/ RecordBaseline \/ RecordRegression \/ DetectStep \/ PlotStep
SpecPipeline == InitPipeline /\ [][NextPipeline]_vars

\* The file after the baseline's record, and after the candidate's.
AfterBaseline ==
    record_performance(store0, log[1].timestamp, baseline[1], baseline[2],
                       BASELINE_FLAGS).file
AfterCandidate ==
    record_performance(AfterBaseline, log[2].timestamp, regression[1],
                       regression[2], REGRESSION_FLAGS).file

SampleErrors ==
    {"CalledProcessError in compile_program", "CalledProcessError in run_program"}

\* C7: if a sample fails during the baseline or the candidate aggregation,
\* the run aborts: the failing aggregation yields no measurement and none is
\* recorded for it, no later step runs, no verdict is emitted, and the file
\* is what was saved before the failing step.
C7_FailedSampleAborts ==
    raised \in SampleErrors =>
        /\ mpc = "aborted"
        /\ verdict = None
        /\ ret.op \notin {"detect", "plot"}
        /\ regression = <<>>
        /\ IF baseline = <<>>
             THEN log = <<>> /\ file = store0
             ELSE Len(log) = 1 /\ file = AfterBaseline

\* C7's case: a sample of the candidate aggregation failed after an earlier
\* sample of it had succeeded.
C7_Witness ==
    /\ raised = "CalledProcessError in run_program"
    /\ baseline # <<>>
    /\ compile_times # <<>>
    /\ file = AfterBaseline

\* C8: a run's steps occur in the order aggregate baseline, record
\* baseline, aggregate candidate, record candidate, detect; detect is
\* evaluated on the candidate's values against the file as the candidate's
\* record left it, which holds this run's baseline and candidate.
C8_StepOrder ==
    /\ mpc = "measure_baseline" =>
          (baseline = <<>> /\ log = <<>> /\ file = store0 /\ verdict = None)
    /\ mpc = "record_baseline" =>
          (baseline # <<>> /\ regression = <<>> /\ log = <<>> /\ file = store0
           /\ verdict = None)
    /\ mpc = "measure_regression" =>
          (regression = <<>> /\ Len(log) = 1 /\ file = AfterBaseline
           /\ verdict = None)
    /\ mpc = "record_regression" =>
          (regression # <<>> /\ Len(log) = 1 /\ file = AfterBaseline
           /\ verdict = None)
    /\ mpc = "detect" =>
          (Len(log) = 2 /\ file = AfterCandidate /\ verdict = None)
    /\ mpc \in {"plot", "done"} =>
          /\ Len(log) = 2
          /\ file = AfterCandidate
          /\ \A i \in 1..2 : \E j \in 1..Len(file.rows) :
                 file.rows[j].timestamp = log[i].timestamp
          /\ log[1] = NewEntry(log[1].timestamp, baseline[1], baseline[2], BASELINE_FLAGS)
          /\ log[2] = NewEntry(log[2].timestamp, regression[1], regression[2], REGRESSION_FLAGS)
          /\ verdict.out = "returned"
          /\ verdict.new_compile = regression[1]
          /\ verdict.new_run = regression[2]
          /\ verdict.avg_compile = AvgCompile
          /\ verdict.avg_run = AvgRun
          /\ verdict.is_regression <=>
               (Exceeds(regression[1], AvgCompile) \/ Exceeds(regression[2], AvgRun))
    /\ (/\ mpc \in {"plot", "done"}
        /\ store0.rows = <<>>
        /\ baseline = <<Rat(1), Rat(2)>>
        /\ regression = <<Norm(6, 5), Norm(5, 2)>>
        /\ log[1].timestamp # log[2].timestamp) =>
          /\ verdict.avg_compile = Norm(11, 10)
          /\ verdict.avg_run = Norm(9, 4)
          /\ verdict.is_regression

\* C8's case: the spec's end-to-end scenario has run to its verdict.
C8_Witness ==
    /\ mpc = "done"
    /\ store0.rows = <<>>
    /\ baseline = <<Rat(1), Rat(2)>>
    /\ regression = <<Norm(6, 5), Norm(5, 2)>>
    /\ log[1].timestamp # log[2].timestamp
    /\ verdict.is_regression
    /\ verdict.avg_compile = Norm(11, 10)

====
